---- MODULE Spec2Model ----
(***************************************************************************)
(* A model of tsz, an abstract interpreter for a small subset of           *)
(* JavaScript: the Value/constraint join (applyToValue), the Scope chain   *)
(* (lookupVar, setVar) and the evaluator (compile, execNode).              *)
(***************************************************************************)
EXTENDS Integers, Sequences, FiniteSets, TLC

(***************************************************************************)
(* ValueType (value.ts).  A constraint is a record with a "type" field and *)
(* the optional keys of its variant ("value", "props", "hasSideEffects",   *)
(* "handler", "node"): DOMAIN c is Object.keys(c).  A Value is a record    *)
(* holding the constraint sequence.                                        *)
(***************************************************************************)
EXCEPTION == 1
ANY == 2
UNDEFINED == 3
NULL == 4
BOOLEAN_ == 5
NUMBER == 6
STRING_ == 7
ARRAY == 8
OBJECT == 9
FUNCTION == 10
SYMBOL == 11

ValueTypes == EXCEPTION..SYMBOL

Value(constraints) == [constraints |-> constraints]

(***************************************************************************)
(* applyToValue.  The callback is a function from the constraints of the   *)
(* value to the outcome of calling it: the constraints it returns, the     *)
(* CompileError it throws (a sequence of length 0 or 1) and the entries it *)
(* pushes on sideEffects before returning.                                 *)
(***************************************************************************)
Returns(constraints) == [constraints |-> constraints, thrown |-> <<>>, effects |-> <<>>]

Throws(error) == [constraints |-> <<>>, thrown |-> <<error>>, effects |-> <<>>]

\* constraintsByType[t]: the marker `true`, or the list of entries
Generalized == [generalized |-> TRUE]

Entries(list) == [list |-> list]

\* Object.entries(result).filter(([key]) => key !== "type"), as the key set
payloadKeys(result) == DOMAIN result \ {"type"}

\* the predicate of existing.some(...): c2 has as many keys as result and
\* agrees with result on each payload key
sameEntries(c2, result) ==
    /\ Cardinality(DOMAIN c2) = Cardinality(payloadKeys(result)) + 1
    /\ \A key \in payloadKeys(result) : key \in DOMAIN c2 /\ c2[key] = result[key]

\* one iteration of the inner loop for a result that is not ANY
mergeResult(constraintsByType, result) ==
    IF result.type \in DOMAIN constraintsByType
    THEN LET existing == constraintsByType[result.type]
         IN  IF existing = Generalized
             THEN constraintsByType
             ELSE IF payloadKeys(result) = {}
             THEN [constraintsByType EXCEPT ![result.type] = Generalized]
             ELSE IF ~ \E i \in 1..Len(existing.list) : sameEntries(existing.list[i], result)
             THEN [constraintsByType EXCEPT ![result.type] = Entries(Append(existing.list, result))]
             ELSE constraintsByType
    ELSE (result.type :> Entries(<<result>>)) @@ constraintsByType

\* Object.entries(constraintsByType).flatMap(...): integer keys come in
\* ascending order
RECURSIVE flatMapBuckets(_, _)
flatMapBuckets(constraintsByType, type) ==
    IF type > SYMBOL
    THEN <<>>
    ELSE (IF type \notin DOMAIN constraintsByType
          THEN <<>>
          ELSE IF constraintsByType[type] = Generalized
          THEN <<[type |-> type]>>
          ELSE constraintsByType[type].list)
         \o flatMapBuckets(constraintsByType, type + 1)

\* joinLoop without the early return on ANY: ANY is merged like any other
\* result
RECURSIVE joinLoopMergingAny(_, _, _, _, _)
joinLoopMergingAny(outcomes, i, j, constraintsByType, effects) ==
    IF i > Len(outcomes)
    THEN [value |-> Value(flatMapBuckets(constraintsByType, EXCEPTION)),
          thrown |-> <<>>, effects |-> effects]
    ELSE IF j = 1 /\ outcomes[i].thrown # <<>>
    THEN [thrown |-> outcomes[i].thrown, effects |-> effects \o outcomes[i].effects]
    ELSE LET pushed == IF j = 1 THEN effects \o outcomes[i].effects ELSE effects
         IN  IF j > Len(outcomes[i].constraints)
             THEN joinLoopMergingAny(outcomes, i + 1, 1, constraintsByType, pushed)
             ELSE joinLoopMergingAny(outcomes, i, j + 1,
                      mergeResult(constraintsByType, outcomes[i].constraints[j]), pushed)

\* the two loops: i is the constraint whose callback outcome is being
\* consumed, j the next result of that outcome
RECURSIVE joinLoop(_, _, _, _, _)
joinLoop(outcomes, i, j, constraintsByType, effects) ==
    IF i > Len(outcomes)
    THEN [value |-> Value(flatMapBuckets(constraintsByType, EXCEPTION)),
          thrown |-> <<>>, effects |-> effects]
    ELSE IF j = 1 /\ outcomes[i].thrown # <<>>
    THEN [thrown |-> outcomes[i].thrown, effects |-> effects \o outcomes[i].effects]
    ELSE LET pushed == IF j = 1 THEN effects \o outcomes[i].effects ELSE effects
         IN  IF j > Len(outcomes[i].constraints)
             THEN joinLoop(outcomes, i + 1, 1, constraintsByType, pushed)
             ELSE LET result == outcomes[i].constraints[j]
                  IN  IF result.type = ANY
                      THEN [value |-> Value(<<result>>), thrown |-> <<>>, effects |-> pushed]
                      ELSE joinLoop(outcomes, i, j + 1,
                                    mergeResult(constraintsByType, result), pushed)

applyToValue(value, callback) ==
    joinLoop([i \in 1..Len(value.constraints) |-> callback[value.constraints[i]]],
             1, 1, <<>>, <<>>)

(***************************************************************************)
(* Scope.  scopes is the heap of Scope objects, a scope is its index and   *)
(* parent 0 is `undefined`.  bindings is the Map, a function from the      *)
(* names it has to their Values; a JavaScript string is the sequence of    *)
(* its characters.                                                         *)
(***************************************************************************)
undefined == [undefined |-> TRUE]

Scope(parent, bindings) == [parent |-> parent, bindings |-> bindings]

\* bindings.set(name, value) on one scope
bindingsSet(scopes, scope, name, value) ==
    [scopes EXCEPT ![scope].bindings = (name :> value) @@ scopes[scope].bindings]

\* a bound Value is an object, so `if (value)` holds exactly when the name is
\* in the Map
RECURSIVE lookupVar(_, _, _)
lookupVar(scopes, scope, name) ==
    IF scope = 0
    THEN undefined
    ELSE IF name \in DOMAIN scopes[scope].bindings
    THEN scopes[scope].bindings[name]
    ELSE lookupVar(scopes, scopes[scope].parent, name)

\* setVar writing to the scope it is called on
setVarTargetThis(scopes, scope, name) == scope

\* the scope the while loop of setVar stops at
RECURSIVE setVarTarget(_, _, _)
setVarTarget(scopes, scope, name) ==
    IF scopes[scope].parent # 0 /\ name \notin DOMAIN scopes[scope].bindings
    THEN setVarTarget(scopes, scopes[scope].parent, name)
    ELSE scope

setVar(scopes, scope, name, value) ==
    bindingsSet(scopes, setVarTarget(scopes, scope, name), name, value)

(***************************************************************************)
(* The syntax tree.  An Identifier node stores escapedText, as the parser  *)
(* builds it, and its text is read back through idText.                    *)
(***************************************************************************)
escapeLeadingUnderscores(identifier) ==
    IF Len(identifier) >= 2 /\ identifier[1] = "_" /\ identifier[2] = "_"
    THEN <<"_">> \o identifier
    ELSE identifier

unescapeLeadingUnderscores(identifier) ==
    IF Len(identifier) >= 3 /\ identifier[1] = "_" /\ identifier[2] = "_" /\ identifier[3] = "_"
    THEN Tail(identifier)
    ELSE identifier

\* node.escapedText as string
escapedText(node) == node.escapedText

\* node.text of an Identifier
idText(node) == unescapeLeadingUnderscores(node.escapedText)

\* +node.text of a NumericLiteral
toNumber(text) ==
    CASE text = "0" -> 0
      [] text = "1" -> 1
      [] text = "2" -> 2
      [] text = "3" -> 3

Identifier(text) == [kind |-> "Identifier", escapedText |-> escapeLeadingUnderscores(text)]

NumericLiteral(text) == [kind |-> "NumericLiteral", text |-> text]

Keyword(kind) == [kind |-> kind]

StringLiteral(text) == [kind |-> "StringLiteral", text |-> text]

PropertyAccessExpression(expression, name) ==
    [kind |-> "PropertyAccessExpression", expression |-> expression, name |-> Identifier(name)]

CallExpression(expression, arguments) ==
    [kind |-> "CallExpression", expression |-> expression, arguments |-> arguments]

BinaryExpression(left, operatorToken, right) ==
    [kind |-> "BinaryExpression", left |-> left, operatorToken |-> operatorToken, right |-> right]

ExpressionStatement(expression) == [kind |-> "ExpressionStatement", expression |-> expression]

VariableDeclaration(name, initializer) ==
    [kind |-> "VariableDeclaration", name |-> name, initializer |-> initializer]

VariableDeclarationNoInit(name) == [kind |-> "VariableDeclaration", name |-> name]

VariableStatement(flags, declarations) ==
    [kind |-> "VariableStatement", flags |-> flags, declarations |-> declarations]

\* the place of a child in the tree: a node is referred to (node.getFullStart())
\* by the path from the source file to it
expressionOf(pos) == pos \o <<0>>

argumentOf(pos, i) == pos \o <<i>>

leftOf(pos) == pos \o <<1>>

rightOf(pos) == pos \o <<2>>

declarationNameOf(pos, i) == pos \o <<i, 1>>

initializerOf(pos, i) == pos \o <<i, 2>>

(***************************************************************************)
(* The evaluator.  An outcome of execNode is the ExecResult it returns (a  *)
(* record with the optional keys value, exception and identifier; {} is    *)
(* the empty record) or the CompileError it throws, with the scopes and    *)
(* the sideEffects list as the evaluation left them.                       *)
(***************************************************************************)
CompileError(message, node) == [message |-> message, node |-> node]

unsupported(node) == CompileError("Unsupported JS code encountered", node)

Completed(result, scopes, sideEffects) ==
    [result |-> result, thrown |-> <<>>, scopes |-> scopes, sideEffects |-> sideEffects]

Thrown(error, scopes, sideEffects) ==
    [result |-> <<>>, thrown |-> <<error>>, scopes |-> scopes, sideEffects |-> sideEffects]

\* result.exception || !result.value
failing(result) == "exception" \in DOMAIN result \/ "value" \notin DOMAIN result

Constraints(value) == {value.constraints[i] : i \in 1..Len(value.constraints)}

\* the native handlers, by reference
consoleLogHandler == "console.log"

callHandler(handler, args) ==
    CASE handler = consoleLogHandler -> Value(<<[type |-> UNDEFINED]>>)

\* callCallback returning no constraints for a function that has a node
callCallbackEmptyForNode(constraint, args, node) ==
    IF constraint.type # FUNCTION
    THEN Throws(CompileError("Called value may not be a function", node))
    ELSE IF "handler" \in DOMAIN constraint
    THEN [constraints |-> callHandler(constraint.handler, args).constraints,
          thrown |-> <<>>,
          effects |-> IF "hasSideEffects" \in DOMAIN constraint /\ constraint.hasSideEffects
                      THEN <<[args |-> args]>>
                      ELSE <<>>]
    ELSE IF "node" \in DOMAIN constraint
    THEN Returns(<<>>)
    ELSE Returns(<<[type |-> ANY]>>)

\* the callback the CallExpression branch hands to applyToValue
callCallback(constraint, args, node) ==
    IF constraint.type # FUNCTION
    THEN Throws(CompileError("Called value may not be a function", node))
    ELSE IF "handler" \in DOMAIN constraint
    THEN [constraints |-> callHandler(constraint.handler, args).constraints,
          thrown |-> <<>>,
          effects |-> IF "hasSideEffects" \in DOMAIN constraint /\ constraint.hasSideEffects
                      THEN <<[args |-> args]>>
                      ELSE <<>>]
    ELSE Returns(<<[type |-> ANY]>>)

\* the callback the PropertyAccessExpression branch hands to applyToValue
propertyCallback(constraint, name, node) ==
    IF constraint.type # OBJECT
    THEN Throws(CompileError("Only objects support property access", node))
    ELSE IF "props" \notin DOMAIN constraint
    THEN Returns(<<[type |-> ANY]>>)
    ELSE IF name \in DOMAIN constraint.props
    THEN Returns(constraint.props[name].constraints)
    ELSE Returns(<<>>)

\* applyToValue as execNode uses it: effects are pushed on sideEffects
joinOutcome(joined, scopes, sideEffects) ==
    IF joined.thrown # <<>>
    THEN Thrown(joined.thrown[1], scopes, sideEffects \o joined.effects)
    ELSE Completed([value |-> joined.value], scopes, sideEffects \o joined.effects)

RECURSIVE execNode(_, _, _, _, _)
RECURSIVE execDeclarations(_, _, _, _, _, _)
RECURSIVE execArguments(_, _, _, _, _, _, _)

\* the loop over node.declarationList.declarations, from declaration i
execDeclarations(declarations, i, pos, scope, scopes, sideEffects) ==
    IF i > Len(declarations)
    THEN Completed(<<>>, scopes, sideEffects)
    ELSE LET declaration == declarations[i]
         IN  IF declaration.name.kind \in {"ArrayBindingPattern", "ObjectBindingPattern"}
             THEN Thrown(CompileError("destructuring is not supported", declarationNameOf(pos, i)),
                         scopes, sideEffects)
             ELSE LET name == escapedText(declaration.name)
                  IN  IF "initializer" \in DOMAIN declaration
                      THEN LET r == execNode(declaration.initializer, initializerOf(pos, i),
                                             scope, scopes, sideEffects)
                           IN  IF r.thrown # <<>> \/ "exception" \in DOMAIN r.result
                               THEN r
                               ELSE LET value == IF "value" \in DOMAIN r.result
                                                 THEN r.result.value
                                                 ELSE Value(<<[type |-> UNDEFINED]>>)
                                    IN  execDeclarations(declarations, i + 1, pos, scope,
                                            bindingsSet(r.scopes, scope, name, value),
                                            r.sideEffects)
                      ELSE execDeclarations(declarations, i + 1, pos, scope,
                               bindingsSet(scopes, scope, name, Value(<<[type |-> UNDEFINED]>>)),
                               sideEffects)

\* the loop over node.arguments going on to the next argument after one
\* that failed
RECURSIVE execArgumentsSkippingFailed(_, _, _, _, _, _, _)
execArgumentsSkippingFailed(arguments, i, args, pos, scope, scopes, sideEffects) ==
    IF i > Len(arguments)
    THEN IF Len(args) = Len(arguments)
         THEN [returned |-> FALSE, args |-> args, scopes |-> scopes, sideEffects |-> sideEffects]
         ELSE [returned |-> TRUE,
               outcome |-> Completed([exception |-> Value(<<[type |-> UNDEFINED]>>)],
                                     scopes, sideEffects)]
    ELSE LET r == execNode(arguments[i], argumentOf(pos, i), scope, scopes, sideEffects)
         IN  IF r.thrown # <<>>
             THEN [returned |-> TRUE, outcome |-> r]
             ELSE execArgumentsSkippingFailed(arguments, i + 1,
                      IF failing(r.result) THEN args ELSE Append(args, r.result.value),
                      pos, scope, r.scopes, r.sideEffects)

\* the loop over node.arguments, from argument i: args when every argument
\* gave a value, else the outcome that is returned
execArguments(arguments, i, args, pos, scope, scopes, sideEffects) ==
    IF i > Len(arguments)
    THEN [returned |-> FALSE, args |-> args, scopes |-> scopes, sideEffects |-> sideEffects]
    ELSE LET r == execNode(arguments[i], argumentOf(pos, i), scope, scopes, sideEffects)
         IN  IF r.thrown # <<>> \/ failing(r.result)
             THEN [returned |-> TRUE, outcome |-> r]
             ELSE execArguments(arguments, i + 1, Append(args, r.result.value), pos, scope,
                                r.scopes, r.sideEffects)

\* the assignment evaluating its right-hand side before it looks the
\* identifier up
execBinaryRightFirst(node, pos, scope, scopes, sideEffects) ==
    IF node.operatorToken = "="
    THEN IF node.left.kind # "Identifier"
         THEN Thrown(unsupported(leftOf(pos)), scopes, sideEffects)
         ELSE LET identifier == escapedText(node.left)
                  r == execNode(node.right, rightOf(pos), scope, scopes, sideEffects)
              IN  IF r.thrown # <<>>
                  THEN r
                  ELSE IF lookupVar(r.scopes, scope, identifier) = undefined
                  THEN Completed([exception |-> Value(<<[type |-> UNDEFINED]>>)],
                                 r.scopes, r.sideEffects)
                  ELSE IF ~ failing(r.result)
                  THEN [r EXCEPT !.scopes =
                           setVar(r.scopes, scope, identifier, r.result.value)]
                  ELSE r
    ELSE Thrown(unsupported(pos), scopes, sideEffects)

\* the CallExpression branch
execCall(node, pos, scope, scopes, sideEffects) ==
    LET expression == execNode(node.expression, expressionOf(pos), scope, scopes, sideEffects)
    IN  IF expression.thrown # <<>> \/ failing(expression.result)
        THEN expression
        ELSE LET a == execArguments(node.arguments, 1, <<>>, pos, scope,
                                    expression.scopes, expression.sideEffects)
             IN  IF a.returned
                 THEN a.outcome
                 ELSE joinOutcome(
                          applyToValue(expression.result.value,
                              [c \in Constraints(expression.result.value) |->
                                  callCallback(c, a.args, pos)]),
                          a.scopes, a.sideEffects)

\* the BinaryExpression branch
execBinary(node, pos, scope, scopes, sideEffects) ==
    IF node.operatorToken = "="
    THEN IF node.left.kind # "Identifier"
         THEN Thrown(unsupported(leftOf(pos)), scopes, sideEffects)
         ELSE LET identifier == escapedText(node.left)
              IN  IF lookupVar(scopes, scope, identifier) = undefined
                  THEN Completed([exception |-> Value(<<[type |-> UNDEFINED]>>)],
                                 scopes, sideEffects)
                  ELSE LET r == execNode(node.right, rightOf(pos), scope, scopes, sideEffects)
                       IN  IF r.thrown = <<>> /\ ~ failing(r.result)
                           THEN [r EXCEPT !.scopes =
                                    setVar(r.scopes, scope, identifier, r.result.value)]
                           ELSE r
    ELSE Thrown(unsupported(pos), scopes, sideEffects)

\* the PropertyAccessExpression branch
execPropertyAccess(node, pos, scope, scopes, sideEffects) ==
    LET expression == execNode(node.expression, expressionOf(pos), scope, scopes, sideEffects)
    IN  IF expression.thrown # <<>> \/ failing(expression.result)
        THEN expression
        ELSE joinOutcome(
                 applyToValue(expression.result.value,
                     [c \in Constraints(expression.result.value) |->
                         propertyCallback(c, escapedText(node.name), pos)]),
                 expression.scopes, expression.sideEffects)

\* the Identifier branch
execIdentifier(node, scope, scopes, sideEffects) ==
    LET identifier == idText(node)
    IN  IF identifier = <<"u", "n", "d", "e", "f", "i", "n", "e", "d">>
        THEN Completed([value |-> Value(<<[type |-> UNDEFINED]>>)], scopes, sideEffects)
        ELSE LET value == lookupVar(scopes, scope, identifier)
             IN  IF value = undefined
                 THEN Completed([exception |-> Value(<<[type |-> UNDEFINED]>>)],
                                scopes, sideEffects)
                 ELSE Completed([identifier |-> identifier, value |-> value],
                                scopes, sideEffects)

execNode(node, pos, scope, scopes, sideEffects) ==
    CASE node.kind = "VariableStatement" ->
           IF node.flags \in {"let", "const"}
           THEN Thrown(unsupported(pos), scopes, sideEffects)
           ELSE execDeclarations(node.declarations, 1, pos, scope, scopes, sideEffects)
      [] node.kind = "CallExpression" -> execCall(node, pos, scope, scopes, sideEffects)
      [] node.kind = "ExpressionStatement" ->
           execNode(node.expression, expressionOf(pos), scope, scopes, sideEffects)
      [] node.kind = "BinaryExpression" -> execBinary(node, pos, scope, scopes, sideEffects)
      [] node.kind = "PropertyAccessExpression" ->
           execPropertyAccess(node, pos, scope, scopes, sideEffects)
      [] node.kind = "NumericLiteral" ->
           Completed([value |-> Value(<<[type |-> NUMBER, value |-> toNumber(node.text)]>>)],
                     scopes, sideEffects)
      [] node.kind = "Identifier" -> execIdentifier(node, scope, scopes, sideEffects)
      [] node.kind = "NullKeyword" ->
           Completed([value |-> Value(<<[type |-> NULL]>>)], scopes, sideEffects)
      [] node.kind = "TrueKeyword" ->
           Completed([value |-> Value(<<[type |-> BOOLEAN_, value |-> TRUE]>>)], scopes, sideEffects)
      [] node.kind = "FalseKeyword" ->
           Completed([value |-> Value(<<[type |-> BOOLEAN_, value |-> FALSE]>>)], scopes, sideEffects)
      [] OTHER -> Thrown(unsupported(pos), scopes, sideEffects)

\* createGlobalScope
consoleName == <<"c", "o", "n", "s", "o", "l", "e">>

logName == <<"l", "o", "g">>

consoleLog ==
    Value(<<[type |-> FUNCTION, hasSideEffects |-> TRUE, handler |-> consoleLogHandler]>>)

consoleProps == (logName :> consoleLog)

console == Value(<<[type |-> OBJECT, props |-> consoleProps]>>)

createGlobalScope == Scope(0, (consoleName :> console))

(***************************************************************************)
(* compile.  The source file is read one statement at a time: statements   *)
(* holds the statements execNode has been called on, results the           *)
(* ExecResult of each one that returned, err the CompileError caught.      *)
(***************************************************************************)
VARIABLES pc, statements, results, scopes, sideEffects, diagnostics, err,
          joinValue, joinCallback, joinResult, call

vars == <<pc, statements, results, scopes, sideEffects, diagnostics, err,
          joinValue, joinCallback, joinResult, call>>

evalVars == <<statements, results, sideEffects, diagnostics, err>>

joinVars == <<joinValue, joinCallback, joinResult>>

MaxStatements == 3

globalScope == 1

\* the identifiers and expressions the statements are built from
xName == <<"x">>

yName == <<"y">>

dunderName == <<"_", "_", "x">>

undefinedName == <<"u", "n", "d", "e", "f", "i", "n", "e", "d">>

consoleLogExpression == PropertyAccessExpression(Identifier(consoleName), logName)

plusExpression == BinaryExpression(NumericLiteral("1"), "+", NumericLiteral("2"))

logCall(arguments) == CallExpression(consoleLogExpression, arguments)

assign(name, right) == ExpressionStatement(BinaryExpression(Identifier(name), "=", right))

read(name) == ExpressionStatement(Identifier(name))

varStatement(name, initializer) ==
    VariableStatement("var", <<VariableDeclaration(Identifier(name), initializer)>>)

DeclarationStatements ==
    { varStatement(xName, NumericLiteral("1")),
      varStatement(yName, NumericLiteral("2")),
      varStatement(dunderName, NumericLiteral("1")),
      varStatement(undefinedName, NumericLiteral("1")),
      VariableStatement("var", <<VariableDeclarationNoInit(Identifier(xName))>>),
      VariableStatement("var", <<VariableDeclaration(Identifier(xName), Identifier(yName)),
                                 VariableDeclaration(Identifier(yName), NumericLiteral("1"))>>),
      VariableStatement("let", <<VariableDeclaration(Identifier(xName), NumericLiteral("1"))>>),
      VariableStatement("var", <<VariableDeclaration(Keyword("ArrayBindingPattern"),
                                                     NumericLiteral("1"))>>) }

AssignmentStatements ==
    { assign(xName, NumericLiteral("2")),
      assign(xName, Identifier(yName)),
      assign(xName, plusExpression),
      assign(xName, consoleLogExpression),
      assign(xName, Identifier(consoleName)),
      assign(yName, logCall(<<NumericLiteral("1")>>)),
      assign(yName, plusExpression),
      assign(dunderName, NumericLiteral("2")),
      assign(undefinedName, NumericLiteral("2")),
      ExpressionStatement(BinaryExpression(PropertyAccessExpression(Identifier(xName), yName),
                                           "=", NumericLiteral("1"))) }

ReadStatements ==
    { read(xName), read(yName), read(dunderName), read(undefinedName),
      ExpressionStatement(Keyword("NullKeyword")),
      ExpressionStatement(Keyword("TrueKeyword")),
      ExpressionStatement(Keyword("FalseKeyword")),
      ExpressionStatement(StringLiteral("s")),
      ExpressionStatement(plusExpression),
      ExpressionStatement(PropertyAccessExpression(Identifier(xName), yName)),
      ExpressionStatement(PropertyAccessExpression(Identifier(consoleName), xName)) }

CallStatements ==
    { ExpressionStatement(logCall(<<NumericLiteral("1")>>)),
      ExpressionStatement(logCall(<<Identifier(xName)>>)),
      ExpressionStatement(logCall(<<logCall(<<NumericLiteral("1")>>), NumericLiteral("2")>>)),
      ExpressionStatement(logCall(<<Identifier(yName), logCall(<<NumericLiteral("2")>>)>>)),
      ExpressionStatement(logCall(<<Identifier(yName), plusExpression>>)),
      ExpressionStatement(logCall(<<logCall(<<NumericLiteral("1")>>), plusExpression>>)),
      ExpressionStatement(CallExpression(Identifier(xName), <<NumericLiteral("1")>>)),
      ExpressionStatement(CallExpression(Identifier(yName), <<logCall(<<NumericLiteral("1")>>)>>)) }

Statements ==
    DeclarationStatements \cup AssignmentStatements \cup ReadStatements \cup CallStatements

\* addDiagnostic: the Diagnostic pushed for a node
addDiagnostic(message, node) ==
    [file |-> "input", start |-> node, category |-> "Error", code |-> "Z",
     messageText |-> message]

\* a loop that never breaks
brokeNever == FALSE

\* the last statement's result made the loop break
broke == results # <<>> /\ "exception" \in DOMAIN results[Len(results)]

Init ==
    /\ pc = "exec"
    /\ statements = <<>>
    /\ results = <<>>
    /\ scopes = <<createGlobalScope>>
    /\ sideEffects = <<>>
    /\ diagnostics = <<>>
    /\ err = <<>>
    /\ joinValue = Value(<<>>)
    /\ joinCallback = <<>>
    /\ joinResult = <<>>
    /\ call = <<>>

\* one iteration of the SourceFile loop: execNode(statement, scope)
ExecStatement ==
    /\ pc = "exec"
    /\ ~ broke
    /\ Len(statements) < MaxStatements
    /\ \E statement \in Statements :
         LET r == execNode(statement, <<Len(statements) + 1>>, globalScope, scopes, sideEffects)
         IN  /\ statements' = Append(statements, statement)
             /\ scopes' = r.scopes
             /\ sideEffects' = r.sideEffects
             /\ IF r.thrown # <<>>
                THEN pc' = "catch" /\ err' = r.thrown /\ results' = results
                ELSE pc' = "exec" /\ err' = err /\ results' = Append(results, r.result)
    /\ UNCHANGED <<diagnostics, joinVars, call>>

\* a catch clause that goes back to the loop
CatchAndResume ==
    /\ pc = "catch"
    /\ diagnostics' = Append(diagnostics, addDiagnostic(err[1].message, err[1].node))
    /\ pc' = "exec"
    /\ UNCHANGED <<statements, results, scopes, sideEffects, err, joinVars, call>>

\* the catch clause: one Diagnostic for the CompileError
Catch ==
    /\ pc = "catch"
    /\ diagnostics' = Append(diagnostics, addDiagnostic(err[1].message, err[1].node))
    /\ pc' = "returned"
    /\ UNCHANGED <<statements, results, scopes, sideEffects, err, joinVars, call>>

\* the loop ends (no statement is left, or break) and compile returns
Return ==
    /\ pc = "exec"
    /\ pc' = "returned"
    /\ UNCHANGED <<evalVars, scopes, joinVars, call>>

Next == ExecStatement \/ Catch \/ Return

Spec == Init /\ [][Next]_vars

(***************************************************************************)
(* applyToValue on its own: a Value and a callback are drawn, and one step *)
(* applies the join.  The callbacks are the identity, the callbacks of     *)
(* the call and property-access rules, and arbitrary transforms given by   *)
(* the results they return for each constraint.                            *)
(***************************************************************************)
MaxJoinLen == 2

MaxResults == 2

RECURSIVE SeqsUpTo(_, _)
SeqsUpTo(S, n) ==
    IF n = 0
    THEN {<<>>}
    ELSE LET shorter == SeqsUpTo(S, n - 1)
         IN  shorter \cup {Append(q, c) : q \in shorter, c \in S}

functionNode == <<1, 0, 0>>

callNode == <<1, 0>>

callArgs == <<Value(<<[type |-> NUMBER, value |-> 1]>>)>>

ResultConstraints ==
    { [type |-> ANY], [type |-> UNDEFINED], [type |-> NUMBER],
      [type |-> NUMBER, value |-> 1], [type |-> NUMBER, value |-> 2] }

JoinConstraints ==
    ResultConstraints \cup
    { [type |-> FUNCTION],
      [type |-> FUNCTION, node |-> functionNode],
      [type |-> FUNCTION, hasSideEffects |-> TRUE, handler |-> consoleLogHandler],
      [type |-> OBJECT],
      [type |-> OBJECT, props |-> consoleProps] }

\* (constraint) => [constraint]
identityCallback(value) == [c \in Constraints(value) |-> Returns(<<c>>)]

callCallbackOf(value) == [c \in Constraints(value) |-> callCallback(c, callArgs, callNode)]

propertyCallbackOf(value) == [c \in Constraints(value) |-> propertyCallback(c, logName, callNode)]

TransformInputs ==
    { Value(<<[type |-> UNDEFINED]>>),
      Value(<<[type |-> NUMBER, value |-> 1]>>),
      Value(<<[type |-> UNDEFINED], [type |-> NUMBER, value |-> 1]>>),
      Value(<<[type |-> NUMBER, value |-> 1], [type |-> UNDEFINED]>>) }

Transforms(value) ==
    { [c \in Constraints(value) |-> Returns(table[c])] :
        table \in [Constraints(value) -> SeqsUpTo(ResultConstraints, MaxResults)] }

InitJoin ==
    /\ pc = "join"
    /\ \/ \E q \in SeqsUpTo(JoinConstraints, MaxJoinLen) :
            /\ joinValue = Value(q)
            /\ joinCallback \in {identityCallback(Value(q)), callCallbackOf(Value(q)),
                                 propertyCallbackOf(Value(q))}
       \/ /\ joinValue \in TransformInputs
          /\ joinCallback \in Transforms(joinValue)
    /\ joinResult = <<>>
    /\ statements = <<>>
    /\ results = <<>>
    /\ scopes = <<createGlobalScope>>
    /\ sideEffects = <<>>
    /\ diagnostics = <<>>
    /\ err = <<>>
    /\ call = <<>>

ApplyToValue ==
    /\ pc = "join"
    /\ joinResult' = applyToValue(joinValue, joinCallback)
    /\ pc' = "joined"
    /\ UNCHANGED <<joinValue, joinCallback, evalVars, scopes, call>>

NextJoin == ApplyToValue

SpecJoin == InitJoin /\ [][NextJoin]_vars

(***************************************************************************)
(* Scope on its own: a tree of scopes is drawn, and one step calls         *)
(* lookupVar, setVar or bindings.set on one of its scopes.  call records   *)
(* the call and the scopes it was made on.                                 *)
(***************************************************************************)
MaxScopes == 3

ScopeNames == {xName, yName}

oldValue(scope) == Value(<<[type |-> NUMBER, value |-> scope]>>)

newValue == Value(<<[type |-> NUMBER, value |-> 0]>>)

ScopeHeaps ==
    { [s \in 1..MaxScopes |-> Scope(parent[s], [name \in bound[s] |-> oldValue(s)])] :
        parent \in { p \in [1..MaxScopes -> 0..MaxScopes] :
                       \A s \in 1..MaxScopes : IF s = 1 THEN p[s] = 0 ELSE p[s] \in 1..(s - 1) },
        bound \in [1..MaxScopes -> SUBSET ScopeNames] }

InitScope ==
    /\ pc = "scope"
    /\ scopes \in ScopeHeaps
    /\ call = <<>>
    /\ statements = <<>>
    /\ results = <<>>
    /\ sideEffects = <<>>
    /\ diagnostics = <<>>
    /\ err = <<>>
    /\ joinValue = Value(<<>>)
    /\ joinCallback = <<>>
    /\ joinResult = <<>>

LookupVar ==
    /\ pc = "scope"
    /\ \E scope \in 1..MaxScopes, name \in ScopeNames :
         call' = [op |-> "lookupVar", scope |-> scope, name |-> name, before |-> scopes,
                  returned |-> lookupVar(scopes, scope, name)]
    /\ pc' = "scopeDone"
    /\ UNCHANGED <<scopes, evalVars, joinVars>>

SetVar ==
    /\ pc = "scope"
    /\ \E scope \in 1..MaxScopes, name \in ScopeNames :
         /\ call' = [op |-> "setVar", scope |-> scope, name |-> name, before |-> scopes,
                     value |-> newValue]
         /\ scopes' = setVar(scopes, scope, name, newValue)
    /\ pc' = "scopeDone"
    /\ UNCHANGED <<evalVars, joinVars>>

BindingsSet ==
    /\ pc = "scope"
    /\ \E scope \in 1..MaxScopes, name \in ScopeNames :
         /\ call' = [op |-> "bindings.set", scope |-> scope, name |-> name, before |-> scopes,
                     value |-> newValue]
         /\ scopes' = bindingsSet(scopes, scope, name, newValue)
    /\ pc' = "scopeDone"
    /\ UNCHANGED <<evalVars, joinVars>>

NextScope == LookupVar \/ SetVar \/ BindingsSet

SpecScope == InitScope /\ [][NextScope]_vars

(***************************************************************************)
(* Properties of applyToValue (SpecJoin).                                  *)
(***************************************************************************)
isGeneric(constraint) == DOMAIN constraint = {"type"}

\* the results the callback contributes, in order, up to the first call
\* that throws
RECURSIVE contributedFrom(_, _, _)
contributedFrom(value, callback, i) ==
    IF i > Len(value.constraints) \/ callback[value.constraints[i]].thrown # <<>>
    THEN <<>>
    ELSE callback[value.constraints[i]].constraints \o contributedFrom(value, callback, i + 1)

contributed == contributedFrom(joinValue, joinCallback, 1)

anyContributed == \E p \in 1..Len(contributed) : contributed[p].type = ANY

joinReturned == pc = "joined" /\ joinResult.thrown = <<>>

joined == joinResult.value.constraints

hasDuplicates(q) == \E i, j \in 1..Len(q) : i # j /\ q[i] = q[j]

\* C1: in the Value a join returns, a generic entry of a type other than Any
\* stands alone for its type, and a specific constraint contributed after
\* the generic constraint of its type is not in the returned Value.
C1_GenericAbsorbsSpecifics ==
    joinReturned =>
        /\ \A i, j \in 1..Len(joined) :
             (i # j /\ joined[i].type # ANY /\ isGeneric(joined[i]))
                 => joined[j].type # joined[i].type
        /\ ~ anyContributed =>
             \A p, q \in 1..Len(contributed) :
               (/\ p < q
                /\ isGeneric(contributed[p])
                /\ contributed[q].type = contributed[p].type
                /\ ~ isGeneric(contributed[q]))
                   => \A i \in 1..Len(joined) : joined[i] # contributed[q]

\* C2: when a contributed result is Any the join returns exactly <<Any>>,
\* and no returned Value holds Any beside another entry.
C2_AnyAbsorbs ==
    pc = "joined" =>
        /\ anyContributed => (joinResult.thrown = <<>> /\ joined = <<[type |-> ANY]>>)
        /\ joinResult.thrown = <<>> =>
             ((\E i \in 1..Len(joined) : joined[i].type = ANY) => Len(joined) = 1)

\* an Any contributed after another result and before a further one
C2_Witness ==
    /\ joinReturned
    /\ \E p \in 2..(Len(contributed) - 1) :
         /\ contributed[p].type = ANY
         /\ \A q \in 1..(p - 1) : contributed[q].type # ANY
    /\ joined = <<[type |-> ANY]>>

\* C3: the join under the identity transform is idempotent, and returns the
\* constraints of v without duplicates and without the specifics of a type
\* whose generic constraint v holds (just Any when v holds Any).
C3_IdentityJoin ==
    (joinReturned /\ joinCallback = identityCallback(joinValue)) =>
        /\ applyToValue(joinResult.value, identityCallback(joinResult.value)).value
             = joinResult.value
        /\ IF [type |-> ANY] \in Constraints(joinValue)
           THEN joined = <<[type |-> ANY]>>
           ELSE /\ ~ hasDuplicates(joined)
                /\ Constraints(joinResult.value) =
                     { c \in Constraints(joinValue) :
                         isGeneric(c) \/ [type |-> c.type] \notin Constraints(joinValue) }

functionsOnly(value) == \A c \in Constraints(value) : c.type = FUNCTION

\* C9 as claimed: under the call rule a Function constraint with a node and
\* no handler contributes nothing, one with neither contributes Any.
C9_NodeContributesNothing ==
    (joinReturned /\ joinCallback = callCallbackOf(joinValue) /\ functionsOnly(joinValue)) =>
        \A c \in Constraints(joinValue) :
            "handler" \notin DOMAIN c =>
                joinCallback[c].constraints =
                    IF "node" \in DOMAIN c THEN <<>> ELSE <<[type |-> ANY]>>

\* C9 as amended: a Function constraint without a handler contributes Any,
\* with a node or without, so the call of a Value holding one returns <<Any>>.
C9_NoHandlerContributesAny ==
    (joinReturned /\ joinCallback = callCallbackOf(joinValue) /\ functionsOnly(joinValue)) =>
        /\ \A c \in Constraints(joinValue) :
             "handler" \notin DOMAIN c => joinCallback[c].constraints = <<[type |-> ANY]>>
        /\ (\E c \in Constraints(joinValue) : "handler" \notin DOMAIN c)
             => joined = <<[type |-> ANY]>>

\* a callee holding only a function with a node and no handler was called
C9_Witness ==
    /\ joinReturned
    /\ joinValue = Value(<<[type |-> FUNCTION, node |-> functionNode]>>)
    /\ joinCallback = callCallbackOf(joinValue)
    /\ joined = <<[type |-> ANY]>>

(***************************************************************************)
(* Properties of Scope (SpecScope).                                        *)
(***************************************************************************)
\* the scopes from scope to the root, nearest first
RECURSIVE scopePath(_, _)
scopePath(heap, scope) ==
    IF scope = 0 THEN <<>> ELSE <<scope>> \o scopePath(heap, heap[scope].parent)

\* the scope setVar is to write: the nearest scope of the path that binds
\* name, or the root
nearestBinder(heap, scope, name) ==
    LET path == scopePath(heap, scope)
        binders == {i \in 1..Len(path) : name \in DOMAIN heap[path[i]].bindings}
    IN  IF binders = {}
        THEN path[Len(path)]
        ELSE path[CHOOSE i \in binders : \A k \in binders : i <= k]

\* C6: setVar(name, v) on S overwrites name in exactly one scope, the
\* nearest scope from S to the root that binds name (the one lookupVar
\* reads) or the root; every other scope and name is unchanged and no entry
\* for name is created anywhere else.
C6_SetVarWritesNearestBinder ==
    (pc = "scopeDone" /\ call.op = "setVar") =>
        LET target == nearestBinder(call.before, call.scope, call.name)
        IN  /\ call.name \in DOMAIN scopes[target].bindings
            /\ scopes[target].bindings[call.name] = call.value
            /\ scopes[target].parent = call.before[target].parent
            /\ DOMAIN scopes[target].bindings =
                 DOMAIN call.before[target].bindings \cup {call.name}
            /\ \A name \in DOMAIN call.before[target].bindings \ {call.name} :
                 scopes[target].bindings[name] = call.before[target].bindings[name]
            /\ \A scope \in (DOMAIN scopes) \ {target} : scopes[scope] = call.before[scope]
            /\ call.name \in DOMAIN call.before[target].bindings =>
                 lookupVar(call.before, call.scope, call.name) = oldValue(target)
            /\ lookupVar(scopes, call.scope, call.name) = call.value

\* setVar was called two scopes below the root on a name bound in the scope
\* between them and in the root, and wrote the scope between them
C6_Witness ==
    /\ pc = "scopeDone"
    /\ call.op = "setVar"
    /\ call.scope = 3
    /\ call.before[3].parent = 2
    /\ call.name \notin DOMAIN call.before[3].bindings
    /\ call.name \in DOMAIN call.before[2].bindings
    /\ call.name \in DOMAIN call.before[1].bindings
    /\ scopes[2].bindings[call.name] = newValue
    /\ scopes[1] = call.before[1]

(***************************************************************************)
(* Properties of compile (Spec).                                           *)
(***************************************************************************)
numberValue(n) == Value(<<[type |-> NUMBER, value |-> n]>>)

undefinedValue == Value(<<[type |-> UNDEFINED]>>)

globalBindings == scopes[globalScope].bindings

\* execNode was called on one more statement in this step
executes == Len(statements') = Len(statements) + 1

executed == statements'[Len(statements')]

lastStatement == statements[Len(statements)]

lastException == results # <<>> /\ "exception" \in DOMAIN results[Len(results)]

\* the node a path leads to
RECURSIVE nodeAt(_, _)
nodeAt(node, path) ==
    IF path = <<>>
    THEN node
    ELSE CASE node.kind = "ExpressionStatement" -> nodeAt(node.expression, Tail(path))
           [] node.kind = "PropertyAccessExpression" -> nodeAt(node.expression, Tail(path))
           [] node.kind = "CallExpression" ->
                IF Head(path) = 0
                THEN nodeAt(node.expression, Tail(path))
                ELSE nodeAt(node.arguments[Head(path)], Tail(path))
           [] node.kind = "BinaryExpression" ->
                IF Head(path) = 1
                THEN nodeAt(node.left, Tail(path))
                ELSE nodeAt(node.right, Tail(path))
           [] node.kind = "VariableStatement" ->
                IF path[2] = 1
                THEN nodeAt(node.declarations[Head(path)].name, Tail(Tail(path)))
                ELSE nodeAt(node.declarations[Head(path)].initializer, Tail(Tail(path)))

\* the node is the assignment target when its parent is an assignment
isAssignmentTarget(path) ==
    /\ Len(path) >= 2
    /\ path[Len(path)] = 1
    /\ LET parent == nodeAt(statements[Head(path)], SubSeq(path, 2, Len(path) - 1))
       IN  parent.kind = "BinaryExpression" /\ parent.operatorToken = "="

\* the constructs compile does not support
unsupportedConstruct(path) ==
    LET node == nodeAt(statements[Head(path)], Tail(path))
    IN  \/ node.kind = "VariableStatement" /\ node.flags \in {"let", "const"}
        \/ node.kind \in {"ArrayBindingPattern", "ObjectBindingPattern"}
        \/ isAssignmentTarget(path) /\ node.kind # "Identifier"
        \/ node.kind = "BinaryExpression" /\ node.operatorToken # "="
        \/ node.kind = "CallExpression"
        \/ node.kind = "PropertyAccessExpression"
        \/ node.kind \notin {"VariableStatement", "CallExpression", "ExpressionStatement",
                             "BinaryExpression", "PropertyAccessExpression", "NumericLiteral",
                             "Identifier", "NullKeyword", "TrueKeyword", "FalseKeyword"}

\* statements that raise whatever the scope holds, with the path of the node
\* that raises from the statement
raisingNode(statement) ==
    CASE statement.kind = "VariableStatement" /\ statement.flags = "let" -> <<>>
      [] statement.kind = "VariableStatement"
           /\ statement.declarations[1].name.kind = "ArrayBindingPattern" -> <<1, 1>>
      [] statement = ExpressionStatement(plusExpression) -> <<0>>
      [] statement = ExpressionStatement(StringLiteral("s")) -> <<0>>
      [] statement.kind = "ExpressionStatement"
           /\ statement.expression.kind = "BinaryExpression"
           /\ statement.expression.left.kind = "PropertyAccessExpression" -> <<0, 1>>
      [] statement = assign(xName, plusExpression)
           /\ xName \in DOMAIN globalBindings -> <<0, 2>>
      [] OTHER -> <<-1>>

C4_State ==
    /\ Len(diagnostics) <= 1
    /\ pc = "returned" => (Len(diagnostics) = 1 <=> err # <<>>)
    /\ err # <<>> =>
         /\ Len(err) = 1
         /\ Len(results) = Len(statements) - 1
         /\ Head(err[1].node) = Len(statements)
         /\ unsupportedConstruct(err[1].node)
    /\ diagnostics # <<>> =>
         /\ err # <<>>
         /\ diagnostics[1].start = err[1].node
         /\ diagnostics[1].messageText = err[1].message
    /\ (statements # <<>> /\ raisingNode(lastStatement) # <<-1>>) =>
         /\ err # <<>>
         /\ err[1].node = <<Len(statements)>> \o raisingNode(lastStatement)
    /\ (/\ Len(statements) >= 2
        /\ statements[1] = varStatement(xName, NumericLiteral("1"))
        /\ statements[2] = ExpressionStatement(PropertyAccessExpression(Identifier(xName), yName)))
         => /\ Len(statements) = 2
            /\ err = <<CompileError("Only objects support property access", <<2, 0>>)>>
            /\ pc = "returned" =>
                 diagnostics = <<addDiagnostic("Only objects support property access", <<2, 0>>)>>
    /\ (/\ Len(statements) >= 1
        /\ statements[1] = ExpressionStatement(logCall(<<logCall(<<NumericLiteral("1")>>),
                                                         plusExpression>>)))
         => /\ Len(statements) = 1
            /\ err = <<unsupported(<<1, 0, 2>>)>>
            /\ sideEffects = <<[args |-> <<numberValue(1)>>]>>

C4_Step ==
    err # <<>> =>
        /\ UNCHANGED <<statements, results, scopes, sideEffects, err>>
        /\ diagnostics = <<>>
        /\ Len(diagnostics') = 1

\* C4: compile returns at most one diagnostic, one exactly when an
\* unsupported construct raised; the diagnostic refers to the node that
\* raised, and after the failure nothing is evaluated: the statements, the
\* bindings and the side effects stay and only that diagnostic is added.
C4_OneDiagnosticFailFast == [] C4_State /\ [][C4_Step]_vars

\* `var x = 1; x.y;` has returned its one diagnostic
C4_Witness ==
    /\ pc = "returned"
    /\ statements = <<varStatement(xName, NumericLiteral("1")),
                      ExpressionStatement(PropertyAccessExpression(Identifier(xName), yName))>>
    /\ Len(diagnostics) = 1

C5_State ==
    /\ lastException =>
         (diagnostics = <<>> /\ err = <<>> /\ Len(results) = Len(statements))
    /\ \A name \in {xName, yName} :
         (/\ statements # <<>>
          /\ lastStatement = read(name)
          /\ name \notin DOMAIN globalBindings)
             => (/\ Len(results) = Len(statements)
                 /\ results[Len(results)] = [exception |-> undefinedValue])

C5_Step ==
    lastException => UNCHANGED <<statements, results, scopes, sideEffects, diagnostics, err>>

\* C5: once a top-level statement's result carries an exception (the read of
\* an unbound identifier gives one, of type Undefined) no later statement is
\* executed: bindings and side effects stay and no diagnostic is ever added.
C5_ExceptionStopsTheSequence == [] C5_State /\ [][C5_Step]_vars

\* the read of the unbound y ended the run of a longer source file
C5_Witness ==
    /\ pc = "returned"
    /\ Len(statements) = 2
    /\ lastStatement = read(yName)
    /\ lastException
    /\ diagnostics = <<>>

isAssignment(statement) ==
    /\ statement.kind = "ExpressionStatement"
    /\ statement.expression.kind = "BinaryExpression"
    /\ statement.expression.operatorToken = "="
    /\ statement.expression.left.kind = "Identifier"

\* the statement declares or assigns the identifier whose text is name
writes(statement, name) ==
    \/ /\ statement.kind = "VariableStatement"
       /\ \E i \in 1..Len(statement.declarations) :
            statement.declarations[i].name = Identifier(name)
    \/ isAssignment(statement) /\ statement.expression.left = Identifier(name)

AssignedNames == {xName, yName, dunderName}

\* C7: after an assignment x = e that gave a value (x other than
\* `undefined`), the assignment's result is e's Value and a later read of x
\* with no write to x in between yields that Value.
C7_ReadYieldsAssignedValue ==
    \A i, j \in 1..Len(results) : \A name \in AssignedNames :
        (/\ i < j
         /\ isAssignment(statements[i])
         /\ statements[i].expression.left = Identifier(name)
         /\ "value" \in DOMAIN results[i]
         /\ statements[j] = read(name)
         /\ \A k \in (i + 1)..(j - 1) : ~ writes(statements[k], name))
            => /\ "value" \in DOMAIN results[j]
               /\ results[j].value = results[i].value
               /\ statements[i].expression.right = NumericLiteral("2")
                    => results[i].value = numberValue(2)

\* the entries a call statement is to append, given the bindings
expectedEntries(statement, bindings) ==
    LET one == [args |-> <<numberValue(1)>>]
        x == IF xName \in DOMAIN bindings THEN bindings[xName] ELSE undefined
        y == IF yName \in DOMAIN bindings THEN bindings[yName] ELSE undefined
    IN  CASE statement = ExpressionStatement(logCall(<<NumericLiteral("1")>>)) -> <<one>>
          [] statement = ExpressionStatement(logCall(<<Identifier(xName)>>)) ->
               IF x = undefined THEN <<>> ELSE <<[args |-> <<x>>]>>
          [] statement = ExpressionStatement(logCall(<<logCall(<<NumericLiteral("1")>>),
                                                       NumericLiteral("2")>>)) ->
               <<one, [args |-> <<undefinedValue, numberValue(2)>>]>>
          [] statement = ExpressionStatement(logCall(<<Identifier(yName),
                                                       logCall(<<NumericLiteral("2")>>)>>)) ->
               IF y = undefined
               THEN <<>>
               ELSE <<[args |-> <<numberValue(2)>>], [args |-> <<y, undefinedValue>>]>>
          [] statement = ExpressionStatement(logCall(<<Identifier(yName), plusExpression>>)) ->
               <<>>
          [] statement = ExpressionStatement(logCall(<<logCall(<<NumericLiteral("1")>>),
                                                       plusExpression>>)) -> <<one>>
          [] statement = ExpressionStatement(CallExpression(Identifier(xName),
                                                            <<NumericLiteral("1")>>)) ->
               IF x = consoleLog THEN <<one>> ELSE <<>>
          [] statement = ExpressionStatement(CallExpression(Identifier(yName),
                                                 <<logCall(<<NumericLiteral("1")>>)>>)) ->
               IF y = undefined THEN <<>> ELSE <<one>>
          [] statement = assign(yName, logCall(<<NumericLiteral("1")>>)) ->
               IF y = undefined THEN <<>> ELSE <<one>>
          [] OTHER -> <<>>

\* the call statements whose failing argument is the unbound y: they return
\* its exception and raise nothing
failsOnArgument(statement) ==
    statement \in
        { ExpressionStatement(logCall(<<Identifier(yName), logCall(<<NumericLiteral("2")>>)>>)),
          ExpressionStatement(logCall(<<Identifier(yName), plusExpression>>)) }

C8_State ==
    statements = <<ExpressionStatement(logCall(<<NumericLiteral("1")>>))>> =>
        /\ sideEffects = <<[args |-> <<numberValue(1)>>]>>
        /\ err = <<>>
        /\ diagnostics = <<>>

C8_Step ==
    executes =>
        /\ sideEffects' = sideEffects \o expectedEntries(executed, globalBindings)
        /\ (failsOnArgument(executed) /\ yName \notin DOMAIN globalBindings) =>
             /\ err' = <<>>
             /\ results' = Append(results, [exception |-> undefinedValue])

\* C8: a call evaluates its callee, then its arguments left to right up to
\* the first that fails; a console.log call appends one entry, holding its
\* argument Values in order, after all of them were evaluated, so the
\* entries of nested calls come first and a call with a failing argument
\* appends none and evaluates no later argument.
C8_SideEffectPerCompletedCall == [] C8_State /\ [][C8_Step]_vars

\* console.log(console.log(1), 2) appended the inner entry, then its own
C8_Witness ==
    /\ statements # <<>>
    /\ lastStatement = ExpressionStatement(logCall(<<logCall(<<NumericLiteral("1")>>),
                                                     NumericLiteral("2")>>))
    /\ Len(sideEffects) >= 2
    /\ sideEffects[Len(sideEffects)] = [args |-> <<undefinedValue, numberValue(2)>>]
    /\ sideEffects[Len(sideEffects) - 1] = [args |-> <<numberValue(1)>>]

C10_Step ==
    (/\ executes
     /\ isAssignment(executed)
     /\ escapedText(executed.expression.left) \notin DOMAIN globalBindings)
        => /\ results' = Append(results, [exception |-> undefinedValue])
           /\ pc' = "exec"
           /\ UNCHANGED <<scopes, sideEffects, diagnostics, err>>

\* C10: an assignment to an identifier bound nowhere yields an exception of
\* type Undefined without evaluating the right-hand side: scopes, side
\* effects and diagnostics are unchanged and the identifier stays unbound.
C10_UnboundAssignmentThrows == [][C10_Step]_vars

\* y = console.log(1) was executed with y unbound
C10_Witness ==
    /\ statements # <<>>
    /\ lastStatement = assign(yName, logCall(<<NumericLiteral("1")>>))
    /\ yName \notin DOMAIN globalBindings
    /\ lastException
    /\ sideEffects = <<>>

====
